---- MODULE Spec2Model ----
(***************************************************************************)
(* Model of mcp-xray-python: the title sanitizer and signature engine     *)
(* (core/gherkin.py, core/dedupe.py), the reconciliation planner          *)
(* (core/llm.py), the duplicate resolver (core/dedupe.py), the tracker     *)
(* client wrappers (core/jira.py) and the driver tool (jt/__init__.py).    *)
(*                                                                         *)
(* Text is a sequence of tokens.  A token is one character class or one    *)
(* word the regular expressions of the code treat as a unit: the issue     *)
(* key ("K", "k"), a sequence tag TC<digits> ("TC01", "tc01", ...), the      *)
(* marker word ("Validate", "validate"), the separator "|", white space    *)
(* (" ", "\n"), punctuation ("-") and plain words.  SHA-1 is taken as      *)
(* injective: a digest is modelled by the payload it is computed from.     *)
(***************************************************************************)
EXTENDS Integers, Sequences, FiniteSets, TLC

VARIABLES
    pl_pc,           \* planner run: "start" | "planned"
    existing_tests,  \* llm_compare_and_sync argument existing_tests
    new_scenarios,   \* llm_compare_and_sync argument new_scenarios
    sync_plan,       \* llm_compare_and_sync result
    tracker,         \* the tracker's test issues, in the order a search returns them
    prefer,          \* dedupe_linked_tests argument prefer
    dd_pc,           \* dedupe run: "idle" | "find" | "delete" | "done" | "raised"
    dd_issues,       \* what J.get_linked_test_issues returned to the dedupe run
    keep,            \* find_duplicates result keep
    drop,            \* find_duplicates result drop
    dd_i,            \* delete_issues loop position in drop
    requests,        \* keys of the DELETE requests issued, in order
    outcomes,        \* outcomes[i]: the tracker confirmed requests[i]
    deleted,         \* delete_issues local list deleted
    dd_result,       \* dedupe_linked_tests return value
    drv_pc,          \* driver run: "idle" | "issue" | "comments" | "generate" | "load" |
                     \*   "update" | "index" | "create" | "obsolete" | "dedupe" | "done" | "raised"
    gen_outcome,     \* what the generation collaborator did: "none" | "ok" | "soft" | "raise"
    drv_i,           \* position of the driver in the plan list it is applying
    cur_index,       \* cur_index of the driver
    created_report,  \* created_report of the driver
    updated_report,  \* updated_report of the driver
    obsolete_report, \* obsolete_report of the driver
    drv_result,      \* the driver's return value
    mutations,       \* the mutating tracker calls of the driver, in order: [op, key, ok]
    faults,          \* failed collaborator calls so far in the driver run
    next_key,        \* the key the tracker gives the next created issue
    tx_pc,           \* text run: "idle" | "start" | the function that was applied
    tx_raw,          \* text run: the raw title, or the plain text or code string
    tx_out,          \* text run: the arguments and results of the function applied
    jr_pc,           \* jira_request: "idle" | "call" | "attempt" | "sleep" | "returned" | "raised"
    jr_max,          \* jira_request: max_retries, from JIRA_MAX_RETRIES
    jr_attempt,      \* jira_request: attempt
    jr_log,          \* jira_request: the outcomes of the HTTP attempts made, in order
    jr_result        \* jira_request: what the caller gets

plan_vars == <<pl_pc, existing_tests, new_scenarios, sync_plan>>
dedupe_vars == <<prefer, dd_pc, dd_issues, keep, drop, dd_i, requests, outcomes, deleted, dd_result>>
driver_vars == <<drv_pc, gen_outcome, drv_i, cur_index, created_report, updated_report,
                 obsolete_report, drv_result, mutations, faults, next_key>>
text_vars == <<tx_pc, tx_raw, tx_out>>
request_vars == <<jr_pc, jr_max, jr_attempt, jr_log, jr_result>>
vars == <<pl_pc, existing_tests, new_scenarios, sync_plan, tracker, prefer, dd_pc,
          dd_issues, keep, drop, dd_i, requests, outcomes, deleted, dd_result,
          drv_pc, gen_outcome, drv_i, cur_index, created_report, updated_report,
          obsolete_report, drv_result, mutations, faults, next_key,
          tx_pc, tx_raw, tx_out, jr_pc, jr_max, jr_attempt, jr_log, jr_result>>

\* ---------------------------------------------------------------- bounds

MaxExisting == 2
MaxDesired == 2
MaxLinked == 3

\* ---------------------------------------------------------------- text

Whitespace == {" ", "\n"}

\* the sequence tags TC<digits>, by their number
TcTokens == <<"TC01", "TC02", "TC03", "TC04", "TC05", "TC06", "TC07", "TC08", "TC09">>

\* the tokens with an upper-case letter, and their lower-case form
LowerPairs ==
    { <<"K", "k">>, <<"Validate", "validate">>, <<"Login", "login">>,
      <<"Logout", "logout">>, <<"Reset", "reset">>, <<"Untitled", "untitled">>,
      <<"Scenario", "scenario">>, <<"Given", "given">>, <<"Steps", "steps">>,
      <<"(Gherkin)", "(gherkin)">>, <<"Feature:", "feature:">>,
      <<"Scenario:", "scenario:">>, <<"Source:", "source:">>, <<"Story", "story">>,
      <<"TC01", "tc01">>, <<"TC02", "tc02">>, <<"TC03", "tc03">>, <<"TC04", "tc04">>,
      <<"TC05", "tc05">>, <<"TC06", "tc06">>, <<"TC07", "tc07">>, <<"TC08", "tc08">>,
      <<"TC09", "tc09">> }

\* str.lower() on one token
LowerTok(c) ==
    IF \E p \in LowerPairs : p[1] = c
    THEN (CHOOSE p \in LowerPairs : p[1] = c)[2]
    ELSE c

Lower(s) == [i \in 1..Len(s) |-> LowerTok(s[i])]

RECURSIVE LStripChars(_, _)
LStripChars(s, cs) ==
    IF s # <<>> /\ Head(s) \in cs THEN LStripChars(Tail(s), cs) ELSE s

RECURSIVE RStripChars(_, _)
RStripChars(s, cs) ==
    IF s # <<>> /\ s[Len(s)] \in cs
    THEN RStripChars(SubSeq(s, 1, Len(s) - 1), cs)
    ELSE s

\* str.strip(chars)
StripChars(s, cs) == RStripChars(LStripChars(s, cs), cs)

\* str.strip()
Strip(s) == StripChars(s, Whitespace)

\* re.sub(r"\s+", " ", s)
RECURSIVE CollapseSpaces(_)
CollapseSpaces(s) ==
    IF s = <<>> THEN <<>>
    ELSE IF Head(s) \in Whitespace
         THEN <<" ">> \o CollapseSpaces(LStripChars(s, Whitespace))
         ELSE <<Head(s)>> \o CollapseSpaces(Tail(s))

\* str.split(sep): the parts between the occurrences of sep (at least one part)
RECURSIVE Split(_, _)
Split(s, sep) ==
    IF \E i \in 1..Len(s) : s[i] = sep
    THEN LET i == CHOOSE j \in 1..Len(s) :
                      s[j] = sep /\ \A h \in 1..(j - 1) : s[h] # sep
         IN  <<SubSeq(s, 1, i - 1)>> \o Split(SubSeq(s, i + 1, Len(s)), sep)
    ELSE <<s>>

\* str.splitlines(): no line for empty text, none after a final line break
SplitLines(text) ==
    IF text = <<>> THEN <<>>
    ELSE LET parts == Split(text, "\n")
         IN  IF parts[Len(parts)] = <<>> THEN SubSeq(parts, 1, Len(parts) - 1) ELSE parts

\* ---------------------------------------------------------------- gherkin.py

IsKey(issue_key, c) == LowerTok(c) = LowerTok(issue_key)
IsTcTag(c) == \E n \in DOMAIN TcTokens : LowerTok(c) = LowerTok(TcTokens[n])
IsValidate(c) == LowerTok(c) = "validate"

\* one optional group of prefix_pat, HEAD \s* \| \s*, matched at the start of s
AfterGroup(s, isHead) ==
    LET r == IF s # <<>> /\ isHead THEN LStripChars(Tail(s), Whitespace) ELSE <<>>
    IN  IF r # <<>> /\ Head(r) = "|"
        THEN LStripChars(Tail(r), Whitespace)
        ELSE s

\* prefix_pat without its second group: only the issue key is removed
StripPrefixKeyOnly(issue_key, t) ==
    LET t0 == LStripChars(t, Whitespace)
    IN  AfterGroup(t0, t0 # <<>> /\ IsKey(issue_key, Head(t0)))

\* re.sub(prefix_pat, "", t, flags=re.IGNORECASE)
StripPrefix(issue_key, t) ==
    LET t0 == LStripChars(t, Whitespace)
        t1 == AfterGroup(t0, t0 # <<>> /\ IsKey(issue_key, Head(t0)))
        t2 == AfterGroup(t1, t1 # <<>> /\ IsTcTag(Head(t1)))
    IN  t2

RECURSIVE AfterValidates(_)
AfterValidates(s) ==
    IF s # <<>> /\ IsValidate(Head(s))
    THEN AfterValidates(LStripChars(Tail(s), Whitespace))
    ELSE s

\* re.sub(r"^\s*(Validate\s*)+", "", t, flags=re.IGNORECASE)
StripValidate(t) ==
    LET t0 == LStripChars(t, Whitespace)
    IN  IF t0 # <<>> /\ IsValidate(Head(t0)) THEN AfterValidates(t0) ELSE t

sanitize_title(issue_key, raw) ==
    LET t0 == Strip(raw)
        t1 == StripPrefix(issue_key, t0)
        t2 == StripValidate(t1)
        t3 == StripChars(t2, {" ", "-"})
        t4 == Strip(CollapseSpaces(t3))
        t5 == IF t4 = <<>> THEN <<"Untitled", " ", "Scenario">> ELSE t4
    IN  <<"Validate", " ">> \o t5

\* _norm_gherkin without the final strip()
_norm_gherkinUnstripped(s) == CollapseSpaces(Lower(s))

_norm_gherkin(s) == Strip(CollapseSpaces(Lower(s)))

\* a signature that leaves the title out
make_signatureBodyOnly(title, feature_text) == _norm_gherkin(feature_text)

\* the digest is the payload it is computed from
make_signature(title, feature_text) ==
    _norm_gherkin(title) \o <<"|">> \o _norm_gherkin(feature_text)

\* ---------------------------------------------------------------- llm.py

\* dict assignment d[k] = v on an insertion-ordered dict, kept as a sequence
\* of entries [k, v]: a present key keeps its place and takes the new value
DictSet(d, k, v) ==
    IF \E i \in 1..Len(d) : d[i].k = k
    THEN [i \in 1..Len(d) |-> IF d[i].k = k THEN [k |-> k, v |-> v] ELSE d[i]]
    ELSE Append(d, [k |-> k, v |-> v])

DictHas(d, k) == \E i \in 1..Len(d) : d[i].k = k

DictGet(d, k) == d[CHOOSE i \in 1..Len(d) : d[i].k = k].v

\* existing_map of llm_compare_and_sync after the first n existing tests
RECURSIVE ExistingMap(_, _, _)
ExistingMap(issue_key, tests, n) ==
    IF n = 0 THEN <<>>
    ELSE LET test == tests[n]
             norm == IF test.norm_title # <<>> THEN test.norm_title
                     ELSE sanitize_title(issue_key, test.summary)
             sig  == IF test.signature # <<>> THEN test.signature
                     ELSE make_signature(norm, test.gherkin)
             test_fixed == [test EXCEPT !.norm_title = norm, !.signature = sig]
         IN  DictSet(ExistingMap(issue_key, tests, n - 1), norm, test_fixed)

\* new_map of llm_compare_and_sync after the first n scenarios
RECURSIVE NewMap(_, _, _)
NewMap(issue_key, scs, n) ==
    IF n = 0 THEN <<>>
    ELSE LET sc == scs[n]
             norm == sanitize_title(issue_key, sc.title)
         IN  DictSet(NewMap(issue_key, scs, n - 1), norm,
                     [title |-> sc.title, steps |-> sc.steps,
                      signature |-> make_signature(norm, sc.steps)])

\* the summary of a to_update entry
NewSummary(issue_key, existing_summary, new_title) ==
    LET summary_parts == Split(existing_summary, "|")
    IN  IF Len(summary_parts) > 1
        THEN Strip(summary_parts[1]) \o <<" ", "|", " ">> \o Strip(summary_parts[2])
                 \o <<" ", "|", " ">> \o new_title
        ELSE <<issue_key, " ", "|", " ">> \o new_title

\* to_create and to_update after the first n entries of new_map
RECURSIVE SyncLoop(_, _, _, _)
SyncLoop(issue_key, existing_map, new_map, n) ==
    IF n = 0 THEN [to_create |-> <<>>, to_update |-> <<>>]
    ELSE LET acc == SyncLoop(issue_key, existing_map, new_map, n - 1)
             norm_title == new_map[n].k
             new_data == new_map[n].v
         IN  IF ~DictHas(existing_map, norm_title)
             THEN [acc EXCEPT !.to_create = Append(@, new_data)]
             ELSE LET existing_test == DictGet(existing_map, norm_title)
                  IN  IF new_data.signature # existing_test.signature
                      THEN [acc EXCEPT !.to_update = Append(@,
                               [key |-> existing_test.key,
                                summary |-> NewSummary(issue_key, existing_test.summary,
                                                       new_data.title),
                                steps |-> new_data.steps])]
                      ELSE acc

RECURSIVE Obsolete(_, _, _)
Obsolete(existing_map, new_map, n) ==
    IF n = 0 THEN <<>>
    ELSE IF ~DictHas(new_map, existing_map[n].k)
         THEN Append(Obsolete(existing_map, new_map, n - 1), existing_map[n].v)
         ELSE Obsolete(existing_map, new_map, n - 1)

llm_compare_and_sync(issue_key, tests, scs) ==
    LET existing_map == ExistingMap(issue_key, tests, Len(tests))
        new_map == NewMap(issue_key, scs, Len(scs))
        acc == SyncLoop(issue_key, existing_map, new_map, Len(new_map))
    IN  [to_create |-> acc.to_create,
         to_update |-> acc.to_update,
         obsolete  |-> Obsolete(existing_map, new_map, Len(existing_map))]

\* ---------------------------------------------------------------- adf.py

\* A document is the sequence of its block nodes [type, lang, text].

\* adf_with_code_block without the language attribute of the code block
adf_with_code_blockNoLanguage(title, code_text) ==
    (IF title # <<>> THEN <<[type |-> "heading", lang |-> "", text |-> title]>> ELSE <<>>)
    \o <<[type |-> "codeBlock", lang |-> "", text |-> code_text]>>

adf_with_code_block(title, code_text) ==
    (IF title # <<>> THEN <<[type |-> "heading", lang |-> "", text |-> title]>> ELSE <<>>)
    \o <<[type |-> "codeBlock", lang |-> "gherkin", text |-> code_text]>>

\* the texts of the code blocks of language lang (every code block when lang is "")
RECURSIVE adf_extract_codeblocks(_, _)
adf_extract_codeblocks(adf, lang) ==
    IF adf = <<>> THEN <<>>
    ELSE (IF Head(adf).type = "codeBlock" /\ (lang = "" \/ Head(adf).lang = lang)
          THEN <<Head(adf).text>> ELSE <<>>)
         \o adf_extract_codeblocks(Tail(adf), lang)

\* the lines adf_to_text collects: one per paragraph or heading; a codeBlock
\* node falls to the last branch of walk, whose children (text nodes) add nothing
RECURSIVE AdfParts(_)
AdfParts(adf) ==
    IF adf = <<>> THEN <<>>
    ELSE (IF Head(adf).type \in {"paragraph", "heading"}
          THEN <<Strip(Head(adf).text)>> ELSE <<>>)
         \o AdfParts(Tail(adf))

\* "\n".join(parts)
RECURSIVE JoinLines(_)
JoinLines(parts) ==
    IF parts = <<>> THEN <<>>
    ELSE IF Len(parts) = 1 THEN parts[1]
    ELSE parts[1] \o <<"\n">> \o JoinLines(Tail(parts))

adf_to_text(adf) ==
    LET txt == JoinLines(SelectSeq(AdfParts(adf), LAMBDA p : p # <<>>))
        lines == SplitLines(txt)
    IN  Strip(JoinLines([i \in DOMAIN lines |-> RStripChars(lines[i], Whitespace)]))

\* plain_to_adf without a paragraph for a blank line or for an empty text
plain_to_adfSkipBlank(text) ==
    LET lines == SelectSeq(SplitLines(text), LAMBDA l : Strip(l) # <<>>)
    IN  [i \in DOMAIN lines |-> [type |-> "paragraph", lang |-> "", text |-> lines[i]]]

\* one paragraph per line, without text for a blank line; one paragraph
\* without text for an empty text
plain_to_adf(text) ==
    LET lines == SplitLines(text)
        content == [i \in DOMAIN lines |->
                       [type |-> "paragraph", lang |-> "",
                        text |-> IF Strip(lines[i]) # <<>> THEN lines[i] ELSE <<>>]]
    IN  IF content = <<>> THEN <<[type |-> "paragraph", lang |-> "", text |-> <<>>]>>
        ELSE content

\* ---------------------------------------------------------------- inputs

IssueKey == "K"

SeqsUpTo(S, n) == UNION {[1..m -> S] : m \in 0..n}

\* summaries of test issues: the wire format, the form the tests of the
\* planner use, and a bare title
Summaries ==
    { <<"K", " ", "|", " ", "TC01", " ", "|", " ", "Validate", " ", "Login">>,
      <<"K", " ", "|", " ", "Validate", " ", "Login">>,
      <<"Validate", " ", "Logout">>,
      <<"K", " ", "|", " ", "TC02", " ", "|", " ", "Validate", " ", "Reset">> }

\* titles the generation collaborator returns, one of them in lower case
Titles ==
    { <<"Validate", " ", "Login">>,
      <<"Login">>,
      <<"login">>,
      <<"Validate", " ", "Logout">> }

\* step texts
Bodies == { <<"Given", " ", "a">>, <<"Given", " ", "b">> }

Scenarios == [title : Titles, steps : Bodies]

\* one record of get_existing_tests_with_details, from an issue's key and
\* summary and the text read from its description
ExistingRecord(issue_key, key, summary, gherkin_content) ==
    LET norm == sanitize_title(issue_key, summary)
    IN  [key |-> key, summary |-> summary, gherkin |-> gherkin_content,
         signature |-> make_signature(norm, gherkin_content), norm_title |-> norm]

\* ---------------------------------------------------------------- planner run

NoPlan == [to_create |-> <<>>, to_update |-> <<>>, obsolete |-> <<>>]

DedupeIdle ==
    /\ prefer = "newest"
    /\ dd_pc = "idle"
    /\ dd_issues = <<>>
    /\ keep = <<>>
    /\ drop = <<>>
    /\ dd_i = 1
    /\ requests = <<>>
    /\ outcomes = <<>>
    /\ deleted = <<>>
    /\ dd_result = [kept |-> <<>>, dropped |-> <<>>, deleted |-> <<>>]

NoResult == [ok |-> FALSE, error |-> <<>>, created |-> <<>>, updated |-> <<>>,
             marked_as_obsolete |-> <<>>, duplicates_deleted |-> <<>>]

DriverIdle ==
    /\ drv_pc = "idle"
    /\ gen_outcome = "none"
    /\ drv_i = 1
    /\ cur_index = 1
    /\ created_report = <<>>
    /\ updated_report = <<>>
    /\ obsolete_report = <<>>
    /\ drv_result = NoResult
    /\ mutations = <<>>
    /\ faults = 0
    /\ next_key = 1

TextIdle ==
    /\ tx_pc = "idle"
    /\ tx_raw = <<>>
    /\ tx_out = [op |-> "none"]

RequestIdle ==
    /\ jr_pc = "idle"
    /\ jr_max = 3
    /\ jr_attempt = 0
    /\ jr_log = <<>>
    /\ jr_result = [kind |-> "none"]

PlanIdle ==
    /\ pl_pc = "idle"
    /\ existing_tests = <<>>
    /\ new_scenarios = <<>>
    /\ sync_plan = NoPlan

\* any existing tests with distinct keys and any scenarios
PlanInit ==
    /\ pl_pc = "start"
    /\ \E raw \in SeqsUpTo(Summaries \X Bodies, MaxExisting) :
           existing_tests =
               [i \in 1..Len(raw) |-> ExistingRecord(IssueKey, i, raw[i][1], raw[i][2])]
    /\ new_scenarios \in SeqsUpTo(Scenarios, MaxDesired)
    /\ sync_plan = NoPlan
    /\ tracker = <<>>
    /\ DedupeIdle
    /\ DriverIdle
    /\ TextIdle
    /\ RequestIdle

Plan ==
    /\ pl_pc = "start"
    /\ sync_plan' = llm_compare_and_sync(IssueKey, existing_tests, new_scenarios)
    /\ pl_pc' = "planned"
    /\ UNCHANGED <<text_vars, request_vars, existing_tests, new_scenarios, tracker, dedupe_vars, driver_vars>>

PlanNext == Plan

SpecPlan == PlanInit /\ [][PlanNext]_vars

\* ---------------------------------------------------------------- planner claims

Range(f) == {f[i] : i \in DOMAIN f}

Canonical(d) == sanitize_title(IssueKey, d.title)
DesiredSig(d) == make_signature(Canonical(d), d.steps)

\* the last segment of a summary, trimmed
LastSegment(summary) ==
    LET parts == Split(summary, "|") IN Strip(parts[Len(parts)])

\* the to_update entries emitted for the desired scenario d
UpdatesFor(d) ==
    {i \in DOMAIN sync_plan.to_update :
        /\ sync_plan.to_update[i].steps = d.steps
        /\ LastSegment(sync_plan.to_update[i].summary) = Strip(d.title)
        /\ \E e \in Range(existing_tests) :
               e.key = sync_plan.to_update[i].key /\ e.norm_title = Canonical(d)}

DesiredInCreate(d) ==
    \E i \in DOMAIN sync_plan.to_create :
        sync_plan.to_create[i].title = d.title /\ sync_plan.to_create[i].steps = d.steps

DesiredUnchanged(d) ==
    \E e \in Range(existing_tests) :
        e.norm_title = Canonical(d) /\ e.signature = DesiredSig(d)

ExistingInUpdate(e) == \E i \in DOMAIN sync_plan.to_update : sync_plan.to_update[i].key = e.key
ExistingInObsolete(e) == \E i \in DOMAIN sync_plan.obsolete : sync_plan.obsolete[i].key = e.key
ExistingUnchanged(e) ==
    \E d \in Range(new_scenarios) :
        e.norm_title = Canonical(d) /\ e.signature = DesiredSig(d)

ExactlyOne(a, b, c) == (a /\ ~b /\ ~c) \/ (~a /\ b /\ ~c) \/ (~a /\ ~b /\ c)

\* C5: reconciliation totality.  Every existing record is in exactly one of
\* matched-unchanged, to_update, obsolete, and every desired scenario is in
\* exactly one of matched-unchanged, to_create, to_update, also when two
\* existing records or two desired scenarios have the same canonical title.
C5_ReconciliationTotality ==
    pl_pc = "planned" =>
        /\ \A e \in Range(existing_tests) :
               ExactlyOne(ExistingUnchanged(e), ExistingInUpdate(e), ExistingInObsolete(e))
        /\ \A d \in Range(new_scenarios) :
               ExactlyOne(DesiredUnchanged(d), DesiredInCreate(d), UpdatesFor(d) # {})

\* C6: a desired scenario is in to_create iff no existing record has its
\* canonical title; it has exactly one to_update entry (with the matched
\* record's key and its own steps) iff an existing record has its canonical
\* title and another signature; nothing is emitted for it iff an existing
\* record has its canonical title and its signature.
C6_PlanPerDesired ==
    pl_pc = "planned" =>
        \A d \in Range(new_scenarios) :
            LET same == {e \in Range(existing_tests) : e.norm_title = Canonical(d)}
            IN  /\ DesiredInCreate(d) <=> (same = {})
                /\ (Cardinality(UpdatesFor(d)) = 1)
                       <=> (\E e \in same : e.signature # DesiredSig(d))
                /\ (~DesiredInCreate(d) /\ UpdatesFor(d) = {})
                       <=> (\E e \in same : e.signature = DesiredSig(d))

\* C7: an existing record is in obsolete iff no desired scenario has its
\* canonical title; with no desired scenario every existing record is
\* obsolete and to_create and to_update are empty.
C7_ObsoleteIffAbsent ==
    pl_pc = "planned" =>
        /\ \A e \in Range(existing_tests) :
               ExistingInObsolete(e)
                   <=> (\A d \in Range(new_scenarios) : Canonical(d) # e.norm_title)
        /\ new_scenarios = <<>> =>
               /\ \A e \in Range(existing_tests) : ExistingInObsolete(e)
               /\ sync_plan.to_create = <<>>
               /\ sync_plan.to_update = <<>>

\* the segments of a summary, trimmed
Segments(summary) ==
    LET parts == Split(summary, "|") IN [i \in 1..Len(parts) |-> Strip(parts[i])]

\* C8: the summary of a to_update entry keeps the key segment and the
\* sequence-tag segment of the existing summary (when present), ends in the
\* new canonical title, and does not keep the old title segment.
C8_UpdateSummary ==
    pl_pc = "planned" =>
        \A i \in DOMAIN sync_plan.to_update :
            \A e \in Range(existing_tests) :
                e.key = sync_plan.to_update[i].key =>
                    LET old == Segments(e.summary)
                        new == Segments(sync_plan.to_update[i].summary)
                    IN  /\ new[Len(new)] = e.norm_title
                        /\ \A j \in 1..(Len(old) - 1) : new[j] = old[j]
                        /\ Len(new) <= Len(old) + 1
                        /\ \A j \in 1..(Len(new) - 1) : new[j] # old[Len(old)]

\* ---------------------------------------------------------------- tracker

\* creation timestamps: strings of digits, "" when the field is missing
Stamps == { <<>>, <<1>>, <<2>> }

\* Python's str order: the first differing character decides, a prefix is smaller
RECURSIVE StrLeq(_, _)
StrLeq(a, b) ==
    IF a = <<>> THEN TRUE
    ELSE IF b = <<>> THEN FALSE
    ELSE IF Head(a) # Head(b) THEN Head(a) < Head(b)
    ELSE StrLeq(Tail(a), Tail(b))

StepsHeading == <<"Steps", " ", "(Gherkin)">>

\* what the issues linked to the ticket look like: (summary, description);
\* the first two have the same canonical title and body
LinkedKinds ==
    { << <<"K", " ", "|", " ", "TC01", " ", "|", " ", "Validate", " ", "Login">>,
         adf_with_code_block(StepsHeading, <<"Given", " ", "a">>) >>,
      << <<"K", " ", "|", " ", "TC02", " ", "|", " ", "Login">>,
         adf_with_code_block(StepsHeading, <<"Given", " ", "a">>) >>,
      << <<"K", " ", "|", " ", "TC01", " ", "|", " ", "Validate", " ", "Login">>,
         adf_with_code_block(StepsHeading, <<"Given", " ", "b">>) >> }

\* the project the tool works in (target_project_key, project_key)
ProjectKey == "P"

\* another project of the tracker
OtherProjectKey == "Q"

Issue(key, summary, created, description) ==
    [key |-> key, summary |-> summary, created |-> created,
     description |-> description, linked |-> TRUE, labels |-> {},
     project |-> ProjectKey]

\* the issues the search of get_linked_test_issues returns: the tests linked
\* to the ticket that are in the project
get_linked_test_issues(issues) ==
    SelectSeq(issues, LAMBDA t : t.linked /\ t.project = ProjectKey)

\* the issues the search of get_existing_tests_with_details returns: the
\* tests linked to the ticket, of any project
SearchLinkedTests(issues) == SelectSeq(issues, LAMBDA t : t.linked)

\* ---------------------------------------------------------------- dedupe.py

\* the entry _group_linked_tests_by_signature builds for one issue
GroupEntry(parent_key, t) ==
    LET parts == Split(t.summary, "|")
        raw_title == Strip(parts[Len(parts)])
        norm_title == sanitize_title(parent_key, raw_title)
        blocks == adf_extract_codeblocks(t.description, "gherkin")
        feature == JoinLines(blocks)
    IN  [key |-> t.key, created |-> t.created, norm_title |-> norm_title,
         feature |-> feature, summary |-> t.summary,
         signature |-> make_signature(norm_title, feature)]

\* the keys of buckets, in insertion order
RECURSIVE BucketOrder(_)
BucketOrder(entries) ==
    IF entries = <<>> THEN <<>>
    ELSE LET before == BucketOrder(SubSeq(entries, 1, Len(entries) - 1))
             sig == entries[Len(entries)].signature
         IN  IF \E i \in DOMAIN before : before[i] = sig THEN before
             ELSE Append(before, sig)

\* sorted(items, key=created): stable, ascending
RECURSIVE SortedByCreated(_)
SortedByCreated(items) ==
    IF items = <<>> THEN <<>>
    ELSE LET s == SortedByCreated(SubSeq(items, 1, Len(items) - 1))
             x == items[Len(items)]
             p == Cardinality({i \in DOMAIN s : StrLeq(s[i].created, x.created)})
         IN  SubSeq(s, 1, p) \o <<x>> \o SubSeq(s, p + 1, Len(s))

\* the loop step of find_duplicates with the newest branch dropping items_sorted[1:]
KeepDropOfBucketSliceBug(items, pref) ==
    IF Len(items) = 1 THEN [keep |-> items[1], drop |-> <<>>]
    ELSE LET items_sorted == SortedByCreated(items)
         IN  IF pref = "oldest"
             THEN [keep |-> items_sorted[1], drop |-> Tail(items_sorted)]
             ELSE [keep |-> items_sorted[Len(items_sorted)], drop |-> Tail(items_sorted)]

\* the loop step of find_duplicates without the sort by creation date
KeepDropOfBucketUnsorted(items, pref) ==
    IF Len(items) = 1 THEN [keep |-> items[1], drop |-> <<>>]
    ELSE IF pref = "oldest"
         THEN [keep |-> items[1], drop |-> Tail(items)]
         ELSE [keep |-> items[Len(items)], drop |-> SubSeq(items, 1, Len(items) - 1)]

\* one step of the loop of find_duplicates over a bucket
KeepDropOfBucket(items, pref) ==
    IF Len(items) = 1 THEN [keep |-> items[1], drop |-> <<>>]
    ELSE LET items_sorted == SortedByCreated(items)
         IN  IF pref = "oldest"
             THEN [keep |-> items_sorted[1], drop |-> Tail(items_sorted)]
             ELSE [keep |-> items_sorted[Len(items_sorted)],
                   drop |-> SubSeq(items_sorted, 1, Len(items_sorted) - 1)]

RECURSIVE FindLoop(_, _, _, _)
FindLoop(entries, order, n, pref) ==
    IF n = 0 THEN [keep |-> <<>>, drop |-> <<>>]
    ELSE LET acc == FindLoop(entries, order, n - 1, pref)
             items == SelectSeq(entries, LAMBDA e : e.signature = order[n])
             kd == KeepDropOfBucket(items, pref)
         IN  [keep |-> Append(acc.keep, kd.keep), drop |-> acc.drop \o kd.drop]

find_duplicates(parent_key, issues, pref) ==
    LET entries == [i \in DOMAIN issues |-> GroupEntry(parent_key, issues[i])]
        order == BucketOrder(entries)
    IN  FindLoop(entries, order, Len(order), pref)

KeysOf(items) == [i \in DOMAIN items |-> items[i].key]

\* ---------------------------------------------------------------- dedupe run

Prefers == {"newest", "oldest", "latest"}

DedupeInit ==
    /\ \E raw \in SeqsUpTo(LinkedKinds \X Stamps, MaxLinked) :
           tracker = [i \in 1..Len(raw) |-> Issue(i, raw[i][1][1], raw[i][2], raw[i][1][2])]
    /\ prefer \in Prefers
    /\ dd_pc = "find"
    /\ dd_issues = <<>>
    /\ keep = <<>>
    /\ drop = <<>>
    /\ dd_i = 1
    /\ requests = <<>>
    /\ outcomes = <<>>
    /\ deleted = <<>>
    /\ dd_result = [kept |-> <<>>, dropped |-> <<>>, deleted |-> <<>>]
    /\ PlanIdle
    /\ DriverIdle
    /\ TextIdle
    /\ RequestIdle

\* find_duplicates: the search for the linked tests answers
FindDuplicates ==
    /\ dd_pc = "find"
    /\ dd_issues' = get_linked_test_issues(tracker)
    /\ LET kd == find_duplicates(IssueKey, dd_issues', prefer)
       IN  /\ keep' = kd.keep
           /\ drop' = kd.drop
    /\ dd_pc' = "delete"
    /\ UNCHANGED <<text_vars, request_vars, tracker, prefer, dd_i, requests, outcomes, deleted, dd_result, plan_vars, driver_vars>>

\* find_duplicates: reading the links of the ticket fails, which
\* _get_linked_issue_keys answers with no keys
FindDuplicatesNoLinks ==
    /\ dd_pc = "find"
    /\ dd_issues' = <<>>
    /\ keep' = <<>>
    /\ drop' = <<>>
    /\ dd_pc' = "delete"
    /\ UNCHANGED <<text_vars, request_vars, tracker, prefer, dd_i, requests, outcomes, deleted, dd_result, plan_vars, driver_vars>>

\* find_duplicates: the search request fails for good and jira_request raises
FindDuplicatesRaises ==
    /\ dd_pc = "find"
    /\ tracker # <<>>
    /\ dd_pc' = "raised"
    /\ UNCHANGED <<text_vars, request_vars, tracker, prefer, dd_issues, keep, drop, dd_i, requests, outcomes,
                   deleted, dd_result, plan_vars, driver_vars>>

\* J.delete_issue: ok is whether the DELETE request succeeded; a failure is
\* caught and answered with ok False
delete_issue(ok) == [ok |-> ok, raised |-> FALSE]

\* the loop of delete_issues giving up at the first failed deletion
DeleteIssuesStepAbort ==
    /\ dd_pc = "delete"
    /\ dd_i <= Len(drop)
    /\ \E ok \in BOOLEAN :
           LET k == drop[dd_i].key
           IN  /\ requests' = Append(requests, k)
               /\ outcomes' = Append(outcomes, ok)
               /\ tracker' = IF ok THEN SelectSeq(tracker, LAMBDA t : t.key # k)
                             ELSE tracker
               /\ deleted' = IF ok THEN Append(deleted, k) ELSE deleted
               /\ dd_i' = IF ok THEN dd_i + 1 ELSE Len(drop) + 1
    /\ UNCHANGED <<text_vars, request_vars, prefer, dd_pc, dd_issues, keep, drop, dd_result, plan_vars, driver_vars>>

\* one iteration of the loop of delete_issues
DeleteIssuesStep ==
    /\ dd_pc = "delete"
    /\ dd_i <= Len(drop)
    /\ \E ok \in BOOLEAN :
           LET k == drop[dd_i].key
               r == delete_issue(ok)
           IN  /\ requests' = Append(requests, k)
               /\ outcomes' = Append(outcomes, ok)
               /\ tracker' = IF ok THEN SelectSeq(tracker, LAMBDA t : t.key # k)
                             ELSE tracker
               /\ deleted' = IF r.raised THEN deleted ELSE Append(deleted, k)
    /\ dd_i' = dd_i + 1
    /\ UNCHANGED <<text_vars, request_vars, prefer, dd_pc, dd_issues, keep, drop, dd_result, plan_vars, driver_vars>>

\* dedupe_linked_tests returns
DedupeReturn ==
    /\ dd_pc = "delete"
    /\ dd_i > Len(drop)
    /\ dd_result' = [kept |-> KeysOf(keep), dropped |-> KeysOf(drop), deleted |-> deleted]
    /\ dd_pc' = "done"
    /\ UNCHANGED <<text_vars, request_vars, tracker, prefer, dd_issues, keep, drop, dd_i, requests, outcomes,
                   deleted, plan_vars, driver_vars>>

DedupeNext ==
    \/ FindDuplicates
    \/ FindDuplicatesNoLinks
    \/ FindDuplicatesRaises
    \/ DeleteIssuesStep
    \/ DedupeReturn

SpecDedupe == DedupeInit /\ [][DedupeNext]_vars

\* ---------------------------------------------------------------- jira.py

\* int(match.group(1)) of re.search(r"TC(\d+)", summary, re.IGNORECASE), 0 without a match
FirstTcNumber(summary) ==
    IF \E i \in DOMAIN summary : IsTcTag(summary[i])
    THEN LET i == CHOOSE j \in DOMAIN summary :
                      IsTcTag(summary[j]) /\ \A h \in 1..(j - 1) : ~IsTcTag(summary[h])
         IN  CHOOSE n \in DOMAIN TcTokens : LowerTok(summary[i]) = LowerTok(TcTokens[n])
    ELSE 0

\* next_tc_index over the issues the search returned
RECURSIVE MaxTc(_)
MaxTc(issues) ==
    IF issues = <<>> THEN 0
    ELSE LET m == MaxTc(Tail(issues))
             n == FirstTcNumber(Head(issues).summary)
         IN  IF n > m THEN n ELSE m

next_tc_index(issues) == MaxTc(issues) + 1

\* get_existing_tests_with_details over the issues the search returned
get_existing_tests_with_details(issue_key, issues) ==
    [i \in DOMAIN issues |->
        ExistingRecord(issue_key, issues[i].key, issues[i].summary,
                       adf_to_text(issues[i].description))]

\* the issue after update_test_issue
UpdatedIssue(t, new_summary, new_gherkin) ==
    [t EXCEPT !.summary = new_summary,
              !.description = adf_with_code_block(StepsHeading, new_gherkin)]

\* the issue create_test_issue makes, linked or not by link_issues
CreatedIssue(key, summary, gherkin, labels, is_linked) ==
    [key |-> key, summary |-> summary, created |-> <<3, key>>,
     description |-> adf_with_code_block(StepsHeading, gherkin),
     linked |-> is_linked, labels |-> labels, project |-> ProjectKey]

\* ---------------------------------------------------------------- gherkin.py, feature text

\* title.replace("Validate ", "", 1)
ReplaceValidateOnce(title) ==
    IF \E i \in 1..(Len(title) - 1) : title[i] = "Validate" /\ title[i + 1] = " "
    THEN LET i == CHOOSE j \in 1..(Len(title) - 1) :
                      /\ title[j] = "Validate" /\ title[j + 1] = " "
                      /\ \A h \in 1..(j - 1) : ~(title[h] = "Validate" /\ title[h + 1] = " ")
         IN  SubSeq(title, 1, i - 1) \o SubSeq(title, i + 2, Len(title))
    ELSE title

build_feature_single(summary, issue_key, sc) ==
    LET scenario_title == ReplaceValidateOnce(sc.title)
        lines == SplitLines(sc.steps)
        body == << <<"@", issue_key>>,
                   <<"Feature:", " ">> \o summary,
                   <<" ", " ", "#", " ", "Source:", " ", issue_key>>,
                   <<>>,
                   <<" ", " ", "Scenario:", " ">> \o scenario_title >>
                \o [i \in DOMAIN lines |-> <<" ", " ", " ", " ">> \o Strip(lines[i])]
                \o << <<>> >>
    IN  JoinLines(body)

\* ---------------------------------------------------------------- driver run (jt/__init__.py)

MaxFaults == 1

\* the summary of the requirements ticket
SummarySrc == <<"Story">>

BaseLabels == {"mcp", "auto-generated"}

\* what the generation collaborator may return
DriverScenarios ==
    { [title |-> <<"Validate", " ", "Login">>, steps |-> <<"Given", " ", "a">>],
      [title |-> <<"Login">>, steps |-> <<"Given", " ", "b">>],
      [title |-> <<"Validate", " ", "Logout">>, steps |-> <<"Given", " ", "a">>] }

\* the tests linked to the ticket when the driver starts; in the last one the
\* second test is in another project
DriverTrackers ==
    LET s1 == <<"K", " ", "|", " ", "TC01", " ", "|", " ", "Validate", " ", "Login">>
        s2 == <<"K", " ", "|", " ", "TC02", " ", "|", " ", "Login">>
        s3 == <<"K", " ", "|", " ", "TC02", " ", "|", " ", "Validate", " ", "Reset">>
        da == adf_with_code_block(StepsHeading, <<"Given", " ", "a">>)
    IN  { <<>>,
          <<Issue(1, s1, <<1>>, da)>>,
          <<Issue(1, s1, <<1>>, da), Issue(2, s2, <<2>>, da)>>,
          <<Issue(1, s1, <<1>>, da), Issue(2, s3, <<2>>, da)>>,
          <<Issue(1, s1, <<1>>, da),
            [Issue(2, s3, <<2>>, da) EXCEPT !.project = OtherProjectKey]>> }

DriverInit ==
    /\ tracker \in DriverTrackers
    /\ prefer \in {"newest", "oldest"}
    /\ drv_pc = "issue"
    /\ gen_outcome = "none"
    /\ drv_i = 1
    /\ cur_index = 1
    /\ created_report = <<>>
    /\ updated_report = <<>>
    /\ obsolete_report = <<>>
    /\ drv_result = NoResult
    /\ mutations = <<>>
    /\ faults = 0
    /\ next_key = Len(tracker) + 1
    /\ PlanIdle
    /\ TextIdle
    /\ RequestIdle
    /\ dd_pc = "idle"
    /\ dd_issues = <<>>
    /\ keep = <<>>
    /\ drop = <<>>
    /\ dd_i = 1
    /\ requests = <<>>
    /\ outcomes = <<>>
    /\ deleted = <<>>
    /\ dd_result = [kept |-> <<>>, dropped |-> <<>>, deleted |-> <<>>]

CanFail == faults < MaxFaults

\* J.get_issue answers
DrvGetIssue ==
    /\ drv_pc = "issue"
    /\ drv_pc' = "comments"
    /\ UNCHANGED <<text_vars, request_vars, tracker, plan_vars, dedupe_vars, gen_outcome, drv_i, cur_index,
                   created_report, updated_report, obsolete_report, drv_result,
                   mutations, faults, next_key>>

\* J.get_issue answers ok False: the driver returns a failure result
DrvGetIssueFails ==
    /\ drv_pc = "issue"
    /\ CanFail
    /\ faults' = faults + 1
    /\ drv_result' = [NoResult EXCEPT !.error = <<"Could not read the source issue.">>]
    /\ drv_pc' = "done"
    /\ UNCHANGED <<text_vars, request_vars, tracker, plan_vars, dedupe_vars, gen_outcome, drv_i, cur_index,
                   created_report, updated_report, obsolete_report, mutations, next_key>>

\* the request for the comments of the ticket answers
DrvComments ==
    /\ drv_pc = "comments"
    /\ drv_pc' = "generate"
    /\ UNCHANGED <<text_vars, request_vars, tracker, plan_vars, dedupe_vars, gen_outcome, drv_i, cur_index,
                   created_report, updated_report, obsolete_report, drv_result,
                   mutations, faults, next_key>>

\* the request for the comments fails for good: jira_request raises
DrvCommentsRaises ==
    /\ drv_pc = "comments"
    /\ CanFail
    /\ faults' = faults + 1
    /\ drv_pc' = "raised"
    /\ UNCHANGED <<text_vars, request_vars, tracker, plan_vars, dedupe_vars, gen_outcome, drv_i, cur_index,
                   created_report, updated_report, obsolete_report, drv_result,
                   mutations, next_key>>

\* L.llm_generate_scenarios returns scenarios
DrvGenerate ==
    /\ drv_pc = "generate"
    /\ \E scs \in SeqsUpTo(DriverScenarios, MaxDesired) :
           /\ scs # <<>>
           /\ new_scenarios' = scs
    /\ gen_outcome' = "ok"
    /\ drv_pc' = "load"
    /\ UNCHANGED <<text_vars, request_vars, tracker, pl_pc, existing_tests, sync_plan, dedupe_vars, drv_i,
                   cur_index, created_report, updated_report, obsolete_report,
                   drv_result, mutations, faults, next_key>>

\* the empty-scenarios check left out: the driver goes on with no scenario
DrvGenerateSoftUnchecked ==
    /\ drv_pc = "generate"
    /\ CanFail
    /\ faults' = faults + 1
    /\ new_scenarios' = <<>>
    /\ gen_outcome' = "soft"
    /\ drv_pc' = "load"
    /\ UNCHANGED <<text_vars, request_vars, tracker, pl_pc, existing_tests, sync_plan, dedupe_vars, drv_i,
                   cur_index, created_report, updated_report, obsolete_report,
                   drv_result, mutations, next_key>>

\* L.llm_generate_scenarios returns ([], reason): the driver returns a failure result
DrvGenerateSoft ==
    /\ drv_pc = "generate"
    /\ CanFail
    /\ faults' = faults + 1
    /\ gen_outcome' = "soft"
    /\ drv_result' = [NoResult EXCEPT !.error = <<"FALLBACK: ", "reason">>]
    /\ drv_pc' = "done"
    /\ UNCHANGED <<text_vars, request_vars, tracker, plan_vars, dedupe_vars, drv_i, cur_index, created_report,
                   updated_report, obsolete_report, mutations, next_key>>

\* L.llm_generate_scenarios raises: the driver catches it and returns a failure result
DrvGenerateRaises ==
    /\ drv_pc = "generate"
    /\ CanFail
    /\ faults' = faults + 1
    /\ gen_outcome' = "raise"
    /\ drv_result' = [NoResult EXCEPT !.error = <<"LLM Exception: ", "reason">>]
    /\ drv_pc' = "done"
    /\ UNCHANGED <<text_vars, request_vars, tracker, plan_vars, dedupe_vars, drv_i, cur_index, created_report,
                   updated_report, obsolete_report, mutations, next_key>>

\* J.get_existing_tests_with_details and L.llm_compare_and_sync
DrvLoadAndPlan ==
    /\ drv_pc = "load"
    /\ existing_tests' =
           get_existing_tests_with_details(IssueKey, SearchLinkedTests(tracker))
    /\ sync_plan' = llm_compare_and_sync(IssueKey, existing_tests', new_scenarios)
    /\ pl_pc' = "planned"
    /\ drv_i' = 1
    /\ drv_pc' = "update"
    /\ UNCHANGED <<text_vars, request_vars, tracker, new_scenarios, dedupe_vars, gen_outcome, cur_index,
                   created_report, updated_report, obsolete_report, drv_result,
                   mutations, faults, next_key>>

\* a read of get_existing_tests_with_details fails: it answers with no test
DrvLoadFailsAndPlan ==
    /\ drv_pc = "load"
    /\ CanFail
    /\ tracker # <<>>
    /\ faults' = faults + 1
    /\ existing_tests' = <<>>
    /\ sync_plan' = llm_compare_and_sync(IssueKey, <<>>, new_scenarios)
    /\ pl_pc' = "planned"
    /\ drv_i' = 1
    /\ drv_pc' = "update"
    /\ UNCHANGED <<text_vars, request_vars, tracker, new_scenarios, dedupe_vars, gen_outcome, cur_index,
                   created_report, updated_report, obsolete_report, drv_result,
                   mutations, next_key>>

\* one iteration of the to_update loop: J.update_test_issue succeeds
DrvUpdateStep ==
    /\ drv_pc = "update"
    /\ drv_i <= Len(sync_plan.to_update)
    /\ LET item == sync_plan.to_update[drv_i]
       IN  /\ tracker' = [i \in DOMAIN tracker |->
                             IF tracker[i].key = item.key
                             THEN UpdatedIssue(tracker[i], item.summary, item.steps)
                             ELSE tracker[i]]
           /\ mutations' = Append(mutations, [op |-> "update", key |-> item.key, ok |-> TRUE])
           /\ updated_report' = Append(updated_report,
                                       [key |-> item.key, summary |-> item.summary])
    /\ drv_i' = drv_i + 1
    /\ UNCHANGED <<text_vars, request_vars, plan_vars, dedupe_vars, drv_pc, gen_outcome, cur_index, created_report,
                   obsolete_report, drv_result, faults, next_key>>

\* J.update_test_issue fails for good: the exception leaves the driver
DrvUpdateRaises ==
    /\ drv_pc = "update"
    /\ drv_i <= Len(sync_plan.to_update)
    /\ CanFail
    /\ faults' = faults + 1
    /\ mutations' = Append(mutations, [op |-> "update",
                                       key |-> sync_plan.to_update[drv_i].key, ok |-> FALSE])
    /\ drv_pc' = "raised"
    /\ UNCHANGED <<text_vars, request_vars, tracker, plan_vars, dedupe_vars, gen_outcome, drv_i, cur_index,
                   created_report, updated_report, obsolete_report, drv_result, next_key>>

\* J.next_tc_index
DrvNextTcIndex ==
    /\ drv_pc = "update"
    /\ drv_i > Len(sync_plan.to_update)
    /\ cur_index' = next_tc_index(get_linked_test_issues(tracker))
    /\ drv_i' = 1
    /\ drv_pc' = "create"
    /\ UNCHANGED <<text_vars, request_vars, tracker, plan_vars, dedupe_vars, gen_outcome, created_report,
                   updated_report, obsolete_report, drv_result, mutations, faults, next_key>>

\* J.next_tc_index when reading the links fails: no issue is seen
DrvNextTcIndexNoLinks ==
    /\ drv_pc = "update"
    /\ drv_i > Len(sync_plan.to_update)
    /\ CanFail
    /\ tracker # <<>>
    /\ faults' = faults + 1
    /\ cur_index' = next_tc_index(<<>>)
    /\ drv_i' = 1
    /\ drv_pc' = "create"
    /\ UNCHANGED <<text_vars, request_vars, tracker, plan_vars, dedupe_vars, gen_outcome, created_report,
                   updated_report, obsolete_report, drv_result, mutations, next_key>>

\* one iteration of the to_create loop: J.create_test_issue succeeds, and
\* J.link_issues answers ok or catches its failure
DrvCreateStep ==
    /\ drv_pc = "create"
    /\ drv_i <= Len(sync_plan.to_create)
    /\ cur_index \in DOMAIN TcTokens
    /\ \E link_ok \in BOOLEAN :
           /\ link_ok \/ CanFail
           /\ faults' = IF link_ok THEN faults ELSE faults + 1
           /\ LET item == sync_plan.to_create[drv_i]
                  tc_tag == TcTokens[cur_index]
                  test_summary == <<IssueKey, " ", "|", " ", tc_tag, " ", "|", " ">>
                                      \o item.title
                  feature_text == build_feature_single(SummarySrc, IssueKey, item)
              IN  /\ tracker' = Append(tracker,
                                       CreatedIssue(next_key, test_summary, feature_text,
                                                    BaseLabels, link_ok))
                  /\ mutations' = mutations
                                    \o <<[op |-> "create", key |-> next_key, ok |-> TRUE],
                                         [op |-> "link", key |-> next_key, ok |-> link_ok]>>
                  /\ created_report' = Append(created_report,
                                              [test_key |-> next_key,
                                               summary |-> test_summary,
                                               tc_tag |-> tc_tag])
    /\ next_key' = next_key + 1
    /\ cur_index' = cur_index + 1
    /\ drv_i' = drv_i + 1
    /\ UNCHANGED <<text_vars, request_vars, plan_vars, dedupe_vars, drv_pc, gen_outcome, updated_report,
                   obsolete_report, drv_result>>

\* J.create_test_issue fails for good and the tests created before it in
\* this run are taken back before the exception leaves the driver
DrvCreateRaisesRollback ==
    /\ drv_pc = "create"
    /\ drv_i <= Len(sync_plan.to_create)
    /\ CanFail
    /\ faults' = faults + 1
    /\ mutations' = Append(mutations, [op |-> "create", key |-> next_key, ok |-> FALSE])
    /\ tracker' = SelectSeq(tracker,
                            LAMBDA t : \A c \in Range(created_report) : c.test_key # t.key)
    /\ drv_pc' = "raised"
    /\ UNCHANGED <<text_vars, request_vars, plan_vars, dedupe_vars, gen_outcome, drv_i, cur_index,
                   created_report, updated_report, obsolete_report, drv_result, next_key>>

\* J.create_test_issue fails for good: the exception leaves the driver
DrvCreateRaises ==
    /\ drv_pc = "create"
    /\ drv_i <= Len(sync_plan.to_create)
    /\ CanFail
    /\ faults' = faults + 1
    /\ mutations' = Append(mutations, [op |-> "create", key |-> next_key, ok |-> FALSE])
    /\ drv_pc' = "raised"
    /\ UNCHANGED <<text_vars, request_vars, tracker, plan_vars, dedupe_vars, gen_outcome, drv_i, cur_index,
                   created_report, updated_report, obsolete_report, drv_result, next_key>>

DrvCreateDone ==
    /\ drv_pc = "create"
    /\ drv_i > Len(sync_plan.to_create)
    /\ drv_i' = 1
    /\ drv_pc' = "obsolete"
    /\ UNCHANGED <<text_vars, request_vars, tracker, plan_vars, dedupe_vars, gen_outcome, cur_index, created_report,
                   updated_report, obsolete_report, drv_result, mutations, faults, next_key>>

\* one iteration of the obsolete loop: J.add_labels_to_issue succeeds
DrvObsoleteStep ==
    /\ drv_pc = "obsolete"
    /\ drv_i <= Len(sync_plan.obsolete)
    /\ LET k == sync_plan.obsolete[drv_i].key
       IN  /\ tracker' = [i \in DOMAIN tracker |->
                             IF tracker[i].key = k
                             THEN [tracker[i] EXCEPT !.labels = @ \cup {"revisar-obsoleto"}]
                             ELSE tracker[i]]
           /\ mutations' = Append(mutations, [op |-> "label", key |-> k, ok |-> TRUE])
           /\ obsolete_report' = Append(obsolete_report, k)
    /\ drv_i' = drv_i + 1
    /\ UNCHANGED <<text_vars, request_vars, plan_vars, dedupe_vars, drv_pc, gen_outcome, cur_index, created_report,
                   updated_report, drv_result, faults, next_key>>

\* J.add_labels_to_issue fails for good: the exception leaves the driver
DrvObsoleteRaises ==
    /\ drv_pc = "obsolete"
    /\ drv_i <= Len(sync_plan.obsolete)
    /\ CanFail
    /\ faults' = faults + 1
    /\ mutations' = Append(mutations, [op |-> "label",
                                       key |-> sync_plan.obsolete[drv_i].key, ok |-> FALSE])
    /\ drv_pc' = "raised"
    /\ UNCHANGED <<text_vars, request_vars, tracker, plan_vars, dedupe_vars, gen_outcome, drv_i, cur_index,
                   created_report, updated_report, obsolete_report, drv_result, next_key>>

\* the driver calls D.dedupe_linked_tests
DrvStartDedupe ==
    /\ drv_pc = "obsolete"
    /\ drv_i > Len(sync_plan.obsolete)
    /\ dd_pc' = "find"
    /\ drv_pc' = "dedupe"
    /\ UNCHANGED <<text_vars, request_vars, tracker, plan_vars, prefer, dd_issues, keep, drop, dd_i, requests,
                   outcomes, deleted, dd_result, gen_outcome, drv_i, cur_index,
                   created_report, updated_report, obsolete_report, drv_result,
                   mutations, faults, next_key>>

\* D.dedupe_linked_tests raised: the exception leaves the driver
DrvDedupeRaised ==
    /\ drv_pc = "dedupe"
    /\ dd_pc = "raised"
    /\ drv_pc' = "raised"
    /\ UNCHANGED <<text_vars, request_vars, tracker, plan_vars, dedupe_vars, gen_outcome, drv_i, cur_index,
                   created_report, updated_report, obsolete_report, drv_result,
                   mutations, faults, next_key>>

\* the driver returns its report
DrvReturn ==
    /\ drv_pc = "dedupe"
    /\ dd_pc = "done"
    /\ drv_result' = [ok |-> TRUE, error |-> <<>>, created |-> created_report,
                      updated |-> updated_report, marked_as_obsolete |-> obsolete_report,
                      duplicates_deleted |-> dd_result.deleted]
    /\ drv_pc' = "done"
    /\ UNCHANGED <<text_vars, request_vars, tracker, plan_vars, dedupe_vars, gen_outcome, drv_i, cur_index,
                   created_report, updated_report, obsolete_report, mutations, faults,
                   next_key>>

DriverNext ==
    \/ DrvGetIssue
    \/ DrvGetIssueFails
    \/ DrvComments
    \/ DrvCommentsRaises
    \/ DrvGenerate
    \/ DrvGenerateSoft
    \/ DrvGenerateRaises
    \/ DrvLoadAndPlan
    \/ DrvLoadFailsAndPlan
    \/ DrvUpdateStep
    \/ DrvUpdateRaises
    \/ DrvNextTcIndex
    \/ DrvNextTcIndexNoLinks
    \/ DrvCreateStep
    \/ DrvCreateRaises
    \/ DrvCreateDone
    \/ DrvObsoleteStep
    \/ DrvObsoleteRaises
    \/ DrvStartDedupe
    \/ FindDuplicates
    \/ FindDuplicatesNoLinks
    \/ FindDuplicatesRaises
    \/ DeleteIssuesStep
    \/ DedupeReturn
    \/ DrvDedupeRaised
    \/ DrvReturn

SpecDriver == DriverInit /\ [][DriverNext]_vars

\* ---------------------------------------------------------------- dedupe.py, signatures

\* _norm without lower()
_normCaseKept(s) == Strip(CollapseSpaces(s))

_norm(s) == Strip(CollapseSpaces(Lower(s)))

\* dedupe.make_signature; the digest is the payload it is computed from
dedupe_make_signature(title_norm, feature_text) ==
    _norm(title_norm) \o <<"|">> \o _norm(feature_text)

make_test_signature(test) ==
    LET title == _norm(test.title)
        steps == _norm(test.steps)
    IN  title \o <<"|">> \o steps

\* norm_title of _group_linked_tests_by_signature for a summary
GroupTitle(parent_key, full) == GroupEntry(parent_key, Issue(0, full, <<>>, <<>>)).norm_title

\* ---------------------------------------------------------------- text run

MaxRaw == 3

\* the tokens of a raw title
TextAlphabet == {"Validate", "validate", "|", " ", "-", "Login"}

\* what a raw title may start with: nothing, the key, a sequence tag, both
RawPrefixes ==
    { <<>>,
      <<"K", " ", "|", " ">>,
      <<"k", "|">>,
      <<"TC01", " ", "|", " ">>,
      <<"K", " ", "|", " ", "tc02", "|">>,
      <<"TC01", "|", "K", "|">> }

\* raw titles; the empty one also stands for None, which (raw or "") makes ""
RawTitles == {p \o t : p \in RawPrefixes, t \in SeqsUpTo(TextAlphabet, MaxRaw)}

\* step texts: none, one line, a line with a table cell, lines with blanks
\* around and between them
StepTexts ==
    { <<>>,
      <<"Given", " ", "a">>,
      <<"given", " ", " ", "a", " ">>,
      <<"Given", " ", "a", "|", "b">>,
      <<" ", "Given", " ", "a", "\n", "\n", " ", " ", "Given", " ", "b", " ", "\n">> }

\* the pairs whose text title|body reads the same as that of (t, b), with the
\* boundary between title and body at another "|"
MovedBoundary(t, b) ==
    LET c == (t \o <<"|">>) \o b
    IN  { <<SubSeq(c, 1, j - 1), SubSeq(c, j + 1, Len(c))>> :
              j \in {i \in 1..Len(c) : c[i] = "|"} \ {Len(t) + 1} }

\* a (title, body) pair with its case changed, with its white space changed,
\* with another title, and with its boundary moved
VariantPairs(t, b) ==
    { <<Lower(t), Lower(b)>>,
      <<(<<" ", "\n">> \o t) \o <<" ">>, b \o <<" ">>>>,
      <<t \o <<"Login">>, b>> } \cup MovedBoundary(t, b)

TextInit ==
    /\ tx_pc = "start"
    /\ tx_raw \in RawTitles
    /\ tx_out = [op |-> "none"]
    /\ tracker = <<>>
    /\ PlanIdle
    /\ DedupeIdle
    /\ DriverIdle
    /\ RequestIdle

\* sanitize_title(issue_key, raw)
TxSanitize ==
    /\ tx_pc = "start"
    /\ tx_out' = [op |-> "sanitize", title |-> sanitize_title(IssueKey, tx_raw)]
    /\ tx_pc' = "done"
    /\ UNCHANGED <<tx_raw, tracker, plan_vars, dedupe_vars, driver_vars, request_vars>>

\* the canonical title of raw is written in a summary K | TCnn | c, and read
\* back from the summary the way _group_linked_tests_by_signature does
TxRecover ==
    /\ tx_pc = "start"
    /\ \E n \in 1..2 :
           LET c == sanitize_title(IssueKey, tx_raw)
               full == <<IssueKey, " ", "|", " ", TcTokens[n], " ", "|", " ">> \o c
           IN  tx_out' = [op |-> "recover", canonical |-> c, summary |-> full,
                          recovered |-> GroupTitle(IssueKey, full)]
    /\ tx_pc' = "done"
    /\ UNCHANGED <<tx_raw, tracker, plan_vars, dedupe_vars, driver_vars, request_vars>>

\* _norm and _norm_gherkin, once and on their own result
TxNormalize ==
    /\ tx_pc = "start"
    /\ \E s \in {tx_raw} \cup StepTexts :
           tx_out' = [op |-> "normalize", text |-> s,
                      once |-> _norm_gherkin(s), twice |-> _norm_gherkin(_norm_gherkin(s)),
                      d_once |-> _norm(s), d_twice |-> _norm(_norm(s))]
    /\ tx_pc' = "done"
    /\ UNCHANGED <<tx_raw, tracker, plan_vars, dedupe_vars, driver_vars, request_vars>>

\* the three signature functions on two (title, body) pairs
TxSign ==
    /\ tx_pc = "start"
    /\ \E b1 \in StepTexts :
           \E v \in VariantPairs(tx_raw, b1) :
               LET t2 == v[1]
                   b2 == v[2]
               IN
               tx_out' = [op |-> "sign", t1 |-> tx_raw, b1 |-> b1, t2 |-> t2, b2 |-> b2,
                          g1 |-> make_signature(tx_raw, b1),
                          d1 |-> dedupe_make_signature(tx_raw, b1),
                          m1 |-> make_test_signature([title |-> tx_raw, steps |-> b1]),
                          g2 |-> make_signature(t2, b2),
                          d2 |-> dedupe_make_signature(t2, b2),
                          m2 |-> make_test_signature([title |-> t2, steps |-> b2])]
    /\ tx_pc' = "done"
    /\ UNCHANGED <<tx_raw, tracker, plan_vars, dedupe_vars, driver_vars, request_vars>>

\* build_feature_single(summary, issue_key, sc)
TxRender ==
    /\ tx_pc = "start"
    /\ \E b \in StepTexts :
           LET sc == [title |-> tx_raw, steps |-> b]
           IN  tx_out' = [op |-> "render", sc |-> sc,
                          feature |-> build_feature_single(SummarySrc, IssueKey, sc)]
    /\ tx_pc' = "done"
    /\ UNCHANGED <<tx_raw, tracker, plan_vars, dedupe_vars, driver_vars, request_vars>>

TextNext ==
    \/ TxSanitize
    \/ TxRecover
    \/ TxNormalize
    \/ TxSign
    \/ TxRender

SpecText == TextInit /\ [][TextNext]_vars

\* ---------------------------------------------------------------- document run (adf.py)

MaxText == 4

\* plain texts and code strings; the empty one also stands for None
PlainTexts == SeqsUpTo({"Hello", "World", " ", "\n"}, MaxText)

DocInit ==
    /\ tx_pc = "start"
    /\ tx_raw \in PlainTexts
    /\ tx_out = [op |-> "none"]
    /\ tracker = <<>>
    /\ PlanIdle
    /\ DedupeIdle
    /\ DriverIdle
    /\ RequestIdle

\* adf_to_text(plain_to_adf(text))
TxPlain ==
    /\ tx_pc = "start"
    /\ LET adf == plain_to_adf(tx_raw)
       IN  tx_out' = [op |-> "plain", text |-> tx_raw, adf |-> adf, back |-> adf_to_text(adf)]
    /\ tx_pc' = "done"
    /\ UNCHANGED <<tx_raw, tracker, plan_vars, dedupe_vars, driver_vars, request_vars>>

\* adf_extract_codeblocks(adf, lang) on the document of adf_with_code_block,
\* with or without a paragraph appended to it
TxCodeBlock ==
    /\ tx_pc = "start"
    /\ \E title \in {<<>>, <<"Steps">>}, more \in {<<>>, plain_to_adf(<<"World">>)},
          lang \in {"gherkin", "python", ""} :
           LET adf == adf_with_code_block(title, tx_raw) \o more
           IN  tx_out' = [op |-> "codeblock", title |-> title, code |-> tx_raw,
                          lang |-> lang, adf |-> adf,
                          blocks |-> adf_extract_codeblocks(adf, lang)]
    /\ tx_pc' = "done"
    /\ UNCHANGED <<tx_raw, tracker, plan_vars, dedupe_vars, driver_vars, request_vars>>

DocNext ==
    \/ TxPlain
    \/ TxCodeBlock

SpecDoc == DocInit /\ [][DocNext]_vars

\* ---------------------------------------------------------------- request run (jira.py, jira_request)

MaxRetries == 4

\* what one HTTP attempt can end in: a response with a JSON body, a response
\* without body (204 or empty text), a 429/5xx status, another error status
\* (raise_for_status), a transport error
Successes == {"body", "empty"}
Failures == {"retry_status", "error_status", "transport"}

RequestInit ==
    /\ jr_pc = "call"
    /\ jr_max \in -1..MaxRetries
    /\ jr_attempt = 0
    /\ jr_log = <<>>
    /\ jr_result = [kind |-> "none"]
    /\ tracker = <<>>
    /\ PlanIdle
    /\ DedupeIdle
    /\ DriverIdle
    /\ TextIdle

\* for attempt in range(1, max_retries + 1): the first iteration
JrLoopStart ==
    /\ jr_pc = "call"
    /\ jr_max >= 1
    /\ jr_attempt' = 1
    /\ jr_pc' = "attempt"
    /\ UNCHANGED <<jr_max, jr_log, jr_result, tracker, plan_vars, dedupe_vars,
                   driver_vars, text_vars>>

\* the range of the loop is empty: the function ends without a return
\* statement and the caller gets None
JrLoopEmpty ==
    /\ jr_pc = "call"
    /\ jr_max < 1
    /\ jr_result' = [kind |-> "None"]
    /\ jr_pc' = "returned"
    /\ UNCHANGED <<jr_max, jr_attempt, jr_log, tracker, plan_vars, dedupe_vars,
                   driver_vars, text_vars>>

\* the attempt answers with a success status: the body, or {} without body
JrAttemptSucceeds ==
    /\ jr_pc = "attempt"
    /\ \E o \in Successes :
           /\ jr_log' = Append(jr_log, o)
           /\ jr_result' = [kind |-> "dict", body |-> IF o = "body" THEN "json" ELSE "{}"]
    /\ jr_pc' = "returned"
    /\ UNCHANGED <<jr_max, jr_attempt, tracker, plan_vars, dedupe_vars, driver_vars,
                   text_vars>>

\* a failed attempt raises at once, whatever attempts are left
JrAttemptFailsNoRetry ==
    /\ jr_pc = "attempt"
    /\ \E o \in Failures :
           /\ jr_log' = Append(jr_log, o)
           /\ jr_result' = [kind |-> "raised", error |-> o]
    /\ jr_pc' = "raised"
    /\ UNCHANGED <<jr_max, jr_attempt, tracker, plan_vars, dedupe_vars, driver_vars,
                   text_vars>>

\* the attempt fails with a RequestException: raised again after the last
\* attempt, slept on otherwise
JrAttemptFails ==
    /\ jr_pc = "attempt"
    /\ \E o \in Failures :
           /\ jr_log' = Append(jr_log, o)
           /\ IF jr_attempt = jr_max
              THEN /\ jr_result' = [kind |-> "raised", error |-> o]
                   /\ jr_pc' = "raised"
              ELSE /\ jr_result' = jr_result
                   /\ jr_pc' = "sleep"
    /\ UNCHANGED <<jr_max, jr_attempt, tracker, plan_vars, dedupe_vars, driver_vars,
                   text_vars>>

\* time.sleep(sleep_for), then the next iteration
JrBackoff ==
    /\ jr_pc = "sleep"
    /\ jr_attempt' = jr_attempt + 1
    /\ jr_pc' = "attempt"
    /\ UNCHANGED <<jr_max, jr_log, jr_result, tracker, plan_vars, dedupe_vars,
                   driver_vars, text_vars>>

RequestNext ==
    \/ JrLoopStart
    \/ JrLoopEmpty
    \/ JrAttemptSucceeds
    \/ JrAttemptFails
    \/ JrBackoff

SpecRequest == RequestInit /\ [][RequestNext]_vars

\* ---------------------------------------------------------------- dedupe claims

SigOfIssue(t) == GroupEntry(IssueKey, t).signature

Found == dd_pc \in {"delete", "done"}

\* C1: the returned deleted list holds a key only if the tracker confirmed
\* its deletion; a drop candidate whose DELETE request failed is in dropped
\* and not in deleted.
C1_DeletedOnlyConfirmed ==
    dd_pc = "done" =>
        \A j \in DOMAIN requests :
            /\ requests[j] \in Range(dd_result.dropped)
            /\ requests[j] \in Range(dd_result.deleted) <=> outcomes[j]

\* C2: keep holds exactly one record of every signature group, drop holds
\* every other record of the group, keep and drop are disjoint, and together
\* they hold every input record exactly once.
C2_KeepDropPartition ==
    Found =>
        /\ \A t \in Range(dd_issues) :
               /\ Cardinality({i \in DOMAIN keep : keep[i].signature = SigOfIssue(t)}) = 1
               /\ Cardinality({i \in DOMAIN keep : keep[i].key = t.key})
                      + Cardinality({i \in DOMAIN drop : drop[i].key = t.key}) = 1
               /\ (\A i \in DOMAIN keep : keep[i].key # t.key)
                      => \E i \in DOMAIN drop :
                             drop[i].key = t.key /\ drop[i].signature = SigOfIssue(t)
        /\ Len(keep) + Len(drop) = Len(dd_issues)
        /\ Range(KeysOf(keep)) \cap Range(KeysOf(drop)) = {}

C2_Witness ==
    /\ Found
    /\ Len(keep) >= 2
    /\ Len(drop) >= 1

\* C3: in a group of more than one record the kept record is not newer than
\* any dropped record when prefer is "oldest", and not older than any dropped
\* record for any other prefer; a missing timestamp is the smallest.
C3_KeptIsExtreme ==
    Found =>
        \A k \in Range(keep), d \in Range(drop) :
            k.signature = d.signature =>
                IF prefer = "oldest" THEN StrLeq(k.created, d.created)
                ELSE StrLeq(d.created, k.created)

C3_Witness ==
    /\ Found
    /\ prefer = "newest"
    /\ \E k \in Range(keep), d1, d2 \in Range(drop) :
           /\ k.signature = d1.signature /\ k.signature = d2.signature
           /\ d1.created = <<>> /\ d2.created = <<1>> /\ k.created = <<2>>
           /\ k.key < d1.key

\* C4: one DELETE request per drop candidate, in drop order, whatever the
\* earlier requests answered; a failed deletion stops neither the loop nor
\* dedupe_linked_tests.
C4_EveryDropRequested ==
    /\ dd_pc = "delete" => requests = KeysOf(SubSeq(drop, 1, dd_i - 1))
    /\ dd_pc = "done" => requests = KeysOf(drop) /\ dd_result.dropped = KeysOf(drop)
    /\ dd_pc = "raised" => requests = <<>>

C4_Witness ==
    /\ dd_pc = "done"
    /\ Len(requests) >= 2
    /\ ~outcomes[1]

\* ---------------------------------------------------------------- driver claims

\* C9: when the generation collaborator returns no scenario with a reason,
\* or raises, the driver returns ok = false with the reason, raises nothing
\* and issues no create, update, label, link or delete.
C9_GenerationFailureIsClean ==
    gen_outcome \in {"soft", "raise"} =>
        /\ drv_pc = "done"
        /\ ~drv_result.ok
        /\ Len(drv_result.error) = 2 /\ drv_result.error[2] = "reason"
        /\ drv_result.error[1] =
               (IF gen_outcome = "soft" THEN "FALLBACK: " ELSE "LLM Exception: ")
        /\ mutations = <<>>
        /\ requests = <<>>
        /\ tracker \in DriverTrackers

C9_Witness ==
    /\ gen_outcome = "soft"
    /\ drv_pc = "done"
    /\ tracker # <<>>

\* C10: nothing the driver reports in created, updated, marked_as_obsolete or
\* duplicates_deleted stands for a tracker call that failed.
C10_NoFailureReportedAsSuccess ==
    (drv_pc = "done" /\ drv_result.ok) =>
        /\ \A c \in Range(drv_result.created) :
               \A m \in Range(mutations) :
                   (m.op \in {"create", "link"} /\ m.key = c.test_key) => m.ok
        /\ \A u \in Range(drv_result.updated) :
               \A m \in Range(mutations) : (m.op = "update" /\ m.key = u.key) => m.ok
        /\ \A k \in Range(drv_result.marked_as_obsolete) :
               \A m \in Range(mutations) : (m.op = "label" /\ m.key = k) => m.ok
        /\ \A k \in Range(drv_result.duplicates_deleted) :
               \A j \in DOMAIN requests : requests[j] = k => outcomes[j]

\* the last mutating call of the driver, when it failed
FailedCall == IF mutations # <<>> /\ ~mutations[Len(mutations)].ok
              THEN mutations[Len(mutations)].op ELSE "none"

\* C11: when an update or a create call of the driver fails for good, the
\* exception leaves the driver (no result is returned, nothing more is
\* done), and every update and create applied before it is still in the
\* tracker as it was applied.
C11_FailurePropagatesNoRollback ==
    FailedCall \in {"update", "create"} =>
        /\ drv_pc = "raised"
        /\ drv_result = NoResult
        /\ dd_pc = "idle"
        /\ \A i \in DOMAIN updated_report :
               \E t \in Range(tracker) :
                   /\ t.key = updated_report[i].key
                   /\ t.summary = sync_plan.to_update[i].summary
                   /\ t.description =
                          adf_with_code_block(StepsHeading, sync_plan.to_update[i].steps)
        /\ \A i \in DOMAIN created_report :
               \E t \in Range(tracker) :
                   /\ t.key = created_report[i].test_key
                   /\ t.summary = created_report[i].summary

C11_Witness ==
    /\ FailedCall = "create"
    /\ drv_pc = "raised"
    /\ Len(updated_report) >= 1

\* the issues of a search answer in another order
Reordered(issues, p) == [i \in DOMAIN issues |-> issues[p[i]]]

\* C12: for a fixed prefer, the records find_duplicates keeps are the same
\* whatever the order in which the tracker returns the linked records, also
\* when records of a group have equal or empty creation timestamps.
C12_SurvivorOrderIndependent ==
    Found =>
        \A p \in Permutations(DOMAIN dd_issues) :
            Range(KeysOf(find_duplicates(IssueKey, Reordered(dd_issues, p), prefer).keep))
                = Range(KeysOf(keep))

\* C13: the signature the loader of the planner gives a linked test is the
\* signature under which the duplicate resolver groups the same test.
C13_SameSignatureIdentity ==
    (pl_pc = "planned" /\ drv_pc = "update" /\ mutations = <<>>) =>
        \A e \in Range(existing_tests) :
            \A t \in Range(tracker) :
                t.key = e.key => e.signature = SigOfIssue(t)

\* C14: every test the driver creates has the summary
\* <issue key> | TC<two digits> | <canonical title>, whose last segment is
\* what sanitize_title gives for the title of the scenario it was created for.
C14_CreatedSummaryFormat ==
    \A i \in DOMAIN created_report :
        LET segs == Segments(created_report[i].summary)
        IN  /\ Len(segs) = 3
            /\ segs[1] = <<IssueKey>>
            /\ \E n \in DOMAIN TcTokens : segs[2] = <<TcTokens[n]>>
            /\ segs[3] = sanitize_title(IssueKey, sync_plan.to_create[i].title)
            /\ \A t \in Range(tracker) :
                   t.key = created_report[i].test_key
                       => t.summary = created_report[i].summary

\* ---------------------------------------------------------------- text claims

AllIn(s, cs) == \A i \in DOMAIN s : s[i] \in cs

\* s without its longest prefix and its longest suffix made of cs
Trimmed(s, cs) ==
    IF AllIn(s, cs) THEN <<>>
    ELSE LET i == CHOOSE a \in DOMAIN s : s[a] \notin cs /\ AllIn(SubSeq(s, 1, a - 1), cs)
             j == CHOOSE b \in DOMAIN s : s[b] \notin cs /\ AllIn(SubSeq(s, b + 1, Len(s)), cs)
         IN  SubSeq(s, i, j)

\* s with every run of white space replaced by one space
Squeezed(s) ==
    LET I == {i \in DOMAIN s : ~(s[i] \in Whitespace /\ i > 1 /\ s[i - 1] \in Whitespace)}
        Nth(n) == CHOOSE i \in I : Cardinality({j \in I : j <= i}) = n
    IN  [n \in 1..Cardinality(I) |->
            IF s[Nth(n)] \in Whitespace THEN " " ELSE s[Nth(n)]]

\* g is a head token, white space, "|", white space
IsPrefixGroup(g, IsHead(_)) ==
    /\ Len(g) >= 2
    /\ IsHead(g[1])
    /\ \E m \in 2..Len(g) :
           /\ g[m] = "|"
           /\ AllIn(SubSeq(g, 2, m - 1), Whitespace)
           /\ AllIn(SubSeq(g, m + 1, Len(g)), Whitespace)

\* s is white space, then optionally `<key> |`, then optionally `TC<digits> |`
IsPrefix(issue_key, s) ==
    LET IsTheKey(c) == LowerTok(c) = LowerTok(issue_key)
    IN  \E i, j \in 0..Len(s) :
            /\ i <= j
            /\ AllIn(SubSeq(s, 1, i), Whitespace)
            /\ i = j \/ IsPrefixGroup(SubSeq(s, i + 1, j), IsTheKey)
            /\ j = Len(s) \/ IsPrefixGroup(SubSeq(s, j + 1, Len(s)), IsTcTag)

\* s is repetitions of the marker word with white space around them
IsMarkers(s) ==
    /\ \A i \in DOMAIN s : s[i] \in Whitespace \/ LowerTok(s[i]) = "validate"
    /\ \E i \in DOMAIN s : LowerTok(s[i]) = "validate"

\* s without its longest prefix that satisfies P (s itself when there is none)
WithoutLongest(s, P(_)) ==
    IF \E p \in 1..Len(s) : P(SubSeq(s, 1, p))
    THEN LET p == CHOOSE q \in 1..Len(s) :
                      /\ P(SubSeq(s, 1, q))
                      /\ \A r \in (q + 1)..Len(s) : ~P(SubSeq(s, 1, r))
         IN  SubSeq(s, p + 1, Len(s))
    ELSE s

UntitledTitle == <<"Validate", " ", "Untitled", " ", "Scenario">>

\* the title the description of sanitize_title gives for raw
DescribedTitle(issue_key, raw) ==
    LET IsPre(x) == IsPrefix(issue_key, x)
        t1 == WithoutLongest(Trimmed(raw, Whitespace), IsPre)
        t2 == WithoutLongest(t1, IsMarkers)
        t3 == Trimmed(t2, {" ", "-"})
        t4 == Trimmed(Squeezed(t3), Whitespace)
    IN  IF t4 = <<>> THEN UntitledTitle ELSE <<"Validate", " ">> \o t4

\* C15: sanitize_title removes an optional leading `<key> |` and an optional
\* leading `TC<digits> |` (case-insensitively), then the leading repetitions
\* of "Validate", then the separator punctuation around the rest, collapses
\* white space and returns "Validate " and the rest; for an empty,
\* white-space-only or prefix-only title (and for None) it returns
\* "Validate Untitled Scenario"; the title it returns is never empty.
C15_SanitizeTitle ==
    tx_out.op = "sanitize" =>
        /\ tx_out.title = DescribedTitle(IssueKey, tx_raw)
        /\ Len(tx_out.title) > 2
        /\ SubSeq(tx_out.title, 1, 2) = <<"Validate", " ">>
        /\ IsPrefix(IssueKey, Trimmed(tx_raw, Whitespace)) => tx_out.title = UntitledTitle

C15_Witness ==
    /\ tx_out.op = "sanitize"
    /\ tx_raw = <<"K", " ", "|", " ", "tc02", "|", "validate", "Validate", "Login">>
    /\ tx_out.title = <<"Validate", " ", "Login">>

\* C16: the title sanitize_title returns starts with "Validate " and what
\* follows does not start with the marker word again, in any case.
C16_ExactlyOneMarker ==
    tx_out.op = "sanitize" =>
        /\ SubSeq(tx_out.title, 1, 2) = <<"Validate", " ">>
        /\ LowerTok(tx_out.title[3]) # "validate"

\* C17: sanitize_title applied to the segment right of the last "|" of the
\* summary `K | TCnn | c` of a canonical title c gives c back.
C17_RecoverCanonicalTitle ==
    tx_out.op = "recover" => tx_out.recovered = tx_out.canonical

\* C18: two (title, body) pairs with the same normalized title and the same
\* normalized body have the same signature, and gherkin.make_signature,
\* dedupe.make_signature and dedupe.make_test_signature agree on every pair.
C18_SignatureInsensitive ==
    tx_out.op = "sign" =>
        /\ (/\ _norm_gherkin(tx_out.t1) = _norm_gherkin(tx_out.t2)
            /\ _norm_gherkin(tx_out.b1) = _norm_gherkin(tx_out.b2))
               => tx_out.g1 = tx_out.g2
        /\ tx_out.d1 = tx_out.g1 /\ tx_out.m1 = tx_out.g1
        /\ tx_out.d2 = tx_out.g2 /\ tx_out.m2 = tx_out.g2

C18_Witness ==
    /\ tx_out.op = "sign"
    /\ tx_out.t1 # tx_out.t2
    /\ tx_out.b1 # tx_out.b2
    /\ Lower(tx_out.t1) # tx_out.t1
    /\ tx_out.g1 = tx_out.g2
    /\ tx_out.m1 = tx_out.d2

\* a normalized text: no white space at either end, no letter that
\* lower-casing changes, no white space but single spaces
IsNormal(s) ==
    /\ s # <<>> => (s[1] \notin Whitespace /\ s[Len(s)] \notin Whitespace)
    /\ \A i \in DOMAIN s : LowerTok(s[i]) = s[i] /\ s[i] # "\n"
    /\ \A i \in 1..(Len(s) - 1) : ~(s[i] \in Whitespace /\ s[i + 1] \in Whitespace)

WithoutLeadingMarker(title) ==
    IF Len(title) >= 2 /\ title[1] = "Validate" /\ title[2] = " "
    THEN SubSeq(title, 3, Len(title)) ELSE title

\* C20: the feature text is the lines `@<key>`, `Feature: <summary>`,
\* `  # Source: <key>`, an empty line, `  Scenario: <title>` with only a
\* leading "Validate " removed once from the title, then one line per line
\* of the steps, each four spaces and the trimmed step line.
C20_FeatureLayout ==
    tx_out.op = "render" =>
        LET lines == Split(tx_out.feature, "\n")
            steps == SplitLines(tx_out.sc.steps)
        IN  /\ Len(lines) = 5 + Len(steps) + 1
            /\ lines[1] = <<"@", IssueKey>>
            /\ lines[2] = <<"Feature:", " ">> \o SummarySrc
            /\ lines[3] = <<" ", " ", "#", " ", "Source:", " ", IssueKey>>
            /\ lines[4] = <<>>
            /\ lines[5] = <<" ", " ", "Scenario:", " ">>
                               \o WithoutLeadingMarker(tx_out.sc.title)
            /\ \A i \in DOMAIN steps :
                   lines[5 + i] = <<" ", " ", " ", " ">> \o Trimmed(steps[i], Whitespace)
            /\ lines[Len(lines)] = <<>>

\* ---------------------------------------------------------------- document claims

\* every line of the text has a character and no white space at its ends
LinesAreClean(text) ==
    \A l \in Range(SplitLines(text)) : l # <<>> /\ Trimmed(l, Whitespace) = l

\* one paragraph per line of the text, and one paragraph for an empty text
OneParagraphPerLine(text, adf) ==
    /\ Len(adf) = (IF SplitLines(text) = <<>> THEN 1 ELSE Len(SplitLines(text)))
    /\ \A i \in DOMAIN adf : adf[i].type = "paragraph"
    /\ text = <<>> => adf[1].text = <<>>

C22_CodeBlockRoundTrip ==
    tx_out.op = "codeblock" =>
        /\ tx_out.lang = "gherkin" => tx_out.blocks = <<tx_out.code>>
        /\ tx_out.lang = "python" => tx_out.blocks = <<>>

C22_Witness ==
    /\ tx_out.op = "codeblock"
    /\ tx_out.lang = "gherkin"
    /\ tx_out.title # <<>>
    /\ Len(tx_out.adf) = 3
    /\ tx_out.code = <<"Hello", " ", "\n", "World">>
    /\ tx_out.blocks = <<tx_out.code>>

\* ---------------------------------------------------------------- request claims

\* C23: one call of jira_request makes at most JIRA_MAX_RETRIES attempts,
\* makes another attempt after every failed one but the last allowed, stops
\* at the first successful attempt and returns its body ({} without body),
\* and raises only when the last allowed attempt has failed.
C23_RetryDiscipline ==
    /\ Len(jr_log) <= (IF jr_max > 0 THEN jr_max ELSE 0)
    /\ \A i \in 1..(Len(jr_log) - 1) : jr_log[i] \in Failures
    /\ jr_pc = "attempt" => Len(jr_log) = jr_attempt - 1
    /\ jr_pc = "sleep" => (Len(jr_log) = jr_attempt /\ jr_attempt < jr_max)
    /\ (jr_log # <<>> /\ jr_log[Len(jr_log)] \in Successes) =>
           /\ jr_pc = "returned"
           /\ jr_result = [kind |-> "dict",
                           body |-> IF jr_log[Len(jr_log)] = "empty" THEN "{}" ELSE "json"]
    /\ (jr_log # <<>> /\ jr_log[Len(jr_log)] \in Failures) =>
           IF Len(jr_log) = jr_max
           THEN jr_pc = "raised" /\ jr_result = [kind |-> "raised", error |-> jr_log[jr_max]]
           ELSE jr_pc \in {"sleep", "attempt"}
    /\ jr_pc = "raised" => Len(jr_log) = jr_max

C23_Witness ==
    /\ jr_pc = "returned"
    /\ jr_max = 3
    /\ jr_log = <<"retry_status", "transport", "empty">>

\* C29: for every JIRA_MAX_RETRIES, zero and negative values included, a
\* call of jira_request either returns the dict of a successful attempt or
\* raises; it never returns without a successful attempt.
C29_ReturnsDictOrRaises ==
    jr_pc = "returned" =>
        /\ jr_result.kind = "dict"
        /\ jr_log # <<>>
        /\ jr_log[Len(jr_log)] \in Successes

\* ---------------------------------------------------------------- planner claims, identity

\* C25: when the signature of a desired scenario equals the signature of an
\* existing record, the scenario is not in to_create and the record is not
\* in obsolete, also when their titles differ in letter case only.
C25_SignatureIsIdentity ==
    pl_pc = "planned" =>
        \A d \in Range(new_scenarios) :
            \A e \in Range(existing_tests) :
                DesiredSig(d) = e.signature =>
                    ~DesiredInCreate(d) /\ ~ExistingInObsolete(e)

\* ---------------------------------------------------------------- signature separation claim

\* a text with no separator character in it
NoSeparator(s) == \A i \in 1..Len(s) : s[i] # "|"

\* both pairs of a signed state have the same normalized title and body
SameNormalized ==
    /\ _norm_gherkin(tx_out.t1) = _norm_gherkin(tx_out.t2)
    /\ _norm_gherkin(tx_out.b1) = _norm_gherkin(tx_out.b2)

\* C26 as stated: equal signatures only for equal normalized titles and equal
\* normalized bodies, for every title and body, those with a "|" included
C26_SignatureSeparatesAny ==
    tx_out.op = "sign" =>
        /\ tx_out.g1 = tx_out.g2 => SameNormalized
        /\ tx_out.d1 = tx_out.d2 => SameNormalized
        /\ tx_out.m1 = tx_out.m2 => SameNormalized

\* C26 amended: when neither title contains the separator "|", make_signature
\* (of gherkin.py and of dedupe.py) gives equal signatures only for equal
\* normalized titles and equal normalized bodies; the bodies may contain "|"
C26_SignatureSeparates ==
    (/\ tx_out.op = "sign"
     /\ NoSeparator(tx_out.t1)
     /\ NoSeparator(tx_out.t2)) =>
        /\ tx_out.g1 = tx_out.g2 => SameNormalized
        /\ tx_out.d1 = tx_out.d2 => SameNormalized
        /\ tx_out.m1 = tx_out.m2 => SameNormalized

\* two pairs with separator-free titles, a "|" in the body, the same
\* normalized body, different titles and different signatures
C26_Witness ==
    /\ tx_out.op = "sign"
    /\ NoSeparator(tx_out.t1)
    /\ NoSeparator(tx_out.t2)
    /\ ~NoSeparator(tx_out.b1)
    /\ _norm_gherkin(tx_out.b1) = _norm_gherkin(tx_out.b2)
    /\ _norm_gherkin(tx_out.t1) # _norm_gherkin(tx_out.t2)
    /\ tx_out.g1 # tx_out.g2
    /\ tx_out.d1 # tx_out.d2

\* ---------------------------------------------------------------- dedupe idempotence claim

\* C27: after dedupe_linked_tests has returned with every deletion confirmed,
\* the tests still linked have pairwise distinct signatures, and running
\* find_duplicates and delete_issues again with the same prefer drops nothing,
\* deletes nothing and keeps the same set of keys
C27_DedupeIdempotent ==
    (/\ dd_pc = "done"
     /\ \A i \in DOMAIN outcomes : outcomes[i]) =>
        LET rest == get_linked_test_issues(tracker)
            again == find_duplicates(IssueKey, rest, prefer)
        IN  /\ \A i, j \in DOMAIN rest :
                   i # j => SigOfIssue(rest[i]) # SigOfIssue(rest[j])
            /\ again.drop = <<>>
            /\ Range(KeysOf(again.keep)) = Range(dd_result.kept)

\* ---------------------------------------------------------------- convergence claim

\* the plan a second run computes from what is linked in the tracker now and
\* the same generated scenarios
SecondPlan ==
    llm_compare_and_sync(IssueKey,
        get_existing_tests_with_details(IssueKey, SearchLinkedTests(tracker)),
        new_scenarios)

\* C24: after a driver run in which every tracker call succeeded, a second
\* run with the same scenarios plans nothing to create, to update or to mark
\* as obsolete
C24_SecondRunConverges ==
    (/\ drv_pc = "done"
     /\ drv_result.ok
     /\ faults = 0) =>
        /\ SecondPlan.to_create = <<>>
        /\ SecondPlan.to_update = <<>>
        /\ SecondPlan.obsolete = <<>>

\* ---------------------------------------------------------------- sequence tag claim

\* the sequence tags of a summary
TagsOf(summary) == {LowerTok(summary[i]) : i \in {j \in DOMAIN summary : IsTcTag(summary[j])}}

\* the tests linked to the ticket
LinkedNow == SearchLinkedTests(tracker)

\* C28: after a driver run in which no call failed, no two tests linked to
\* the ticket carry the same TC tag
C28_TagsUnique ==
    (/\ drv_pc = "done"
     /\ drv_result.ok
     /\ faults = 0) =>
        \A i, j \in DOMAIN LinkedNow :
            i # j => TagsOf(LinkedNow[i].summary) \cap TagsOf(LinkedNow[j].summary) = {}

====
